---- MODULE Spec2Model ----
(***************************************************************************)
(* A model of charty's maze core: the bit-packed grid (maze.py), the       *)
(* randomized iterative spanning-tree builder and the iterative distance   *)
(* labeler (algorithm.py).                                                 *)
(*                                                                         *)
(* A cell's stored 32-bit word is kept as the record                       *)
(*     [value |-> bits 4..31, corridors |-> bits 0..3],                    *)
(* so the word is value * 16 + corridors and the word is 0 exactly when    *)
(* both fields are 0.  (TLC's integers stop at 2^31 - 1, and the largest   *)
(* word, 2^32 - 1, does not fit in one.)                                   *)
(***************************************************************************)
EXTENDS Integers, Sequences, FiniteSets, TLC

\* ------------------------------------------------------------------ bounds

\* Largest number of cells of a grid driven through the cell operations.
MaxCells == 3

\* Largest number of cells of a grid handed to the builder and the labeler.
MaxMazeCells == 6

\* Largest number of cells of a grid driven through every call in any order.
MaxAllCells == 2

\* Largest number of cells of a grid on which termination is checked.
MaxFairCells == 4

\* How many of the 24 outcomes of the direction shuffle the builder draws from.
NumShuffles == 4

\* ------------------------------------------------------- program constants

\* UInt28.MASK: 28 set bits.
MASK == 268435455

\* Maze corridors are stored in the lowest 4 bits of a cell.
CORRIDORS_MASK == 15

\* Length of the bit mask.
CORRIDORS_WIDTH == 4

NORTH == 1

EAST == 2

SOUTH == 4

WEST == 8

\* ------------------------------------------------------------ bit twiddling

RECURSIVE BitAnd(_, _)
\* a & b on naturals.
BitAnd(a, b) ==
    IF a = 0 \/ b = 0 THEN 0
    ELSE (IF a % 2 = 1 /\ b % 2 = 1 THEN 1 ELSE 0) + 2 * BitAnd(a \div 2, b \div 2)

RECURSIVE BitOr(_, _)
\* a | b on naturals.
BitOr(a, b) ==
    IF a = 0 THEN b
    ELSE IF b = 0 THEN a
    ELSE (IF a % 2 = 1 \/ b % 2 = 1 THEN 1 ELSE 0) + 2 * BitOr(a \div 2, b \div 2)

\* The stored word 0.
ZeroWord == [value |-> 0, corridors |-> 0]

\* Python's truth value of a stored word (an integer): non-zero.
Truthy(word) == word.value # 0 \/ word.corridors # 0

\* ------------------------------------------------------------------ UInt28

\* A range check that forgets the negative integers.
UInt28RaisesAboveOnly(value) == value > MASK

\* UInt28.__init__ raises when a bit other than the first 28 is set:
\* value & ~MASK != 0.  On Python's unbounded two's-complement integers
\* value & ~MASK is value with its low 28 bits cleared, value - value % 2^28.
UInt28Raises(value) == value - (value % (MASK + 1)) # 0

\* UInt28.clamped: UInt28(value & MASK); value & MASK is value % 2^28.
clamped(value) == value % (MASK + 1)

\* --------------------------------------------------------------- Direction

\* Direction.all(): the members in definition order.
DirectionAll == <<NORTH, EAST, SOUTH, WEST>>

Directions == {NORTH, EAST, SOUTH, WEST}

\* Direction.delta: the unit vector of a direction.
delta(d) ==
    CASE d = NORTH -> <<0, -1>>
      [] d = EAST  -> <<1, 0>>
      [] d = SOUTH -> <<0, 1>>
      [] d = WEST  -> <<-1, 0>>

\* Direction.opposite.
opposite(d) ==
    CASE d = NORTH -> SOUTH
      [] d = EAST  -> WEST
      [] d = SOUTH -> NORTH
      [] d = WEST  -> EAST

\* Direction.__invert__ is ~int(self): every bit but the direction's.  On a
\* stored word, word & ~direction keeps bits 4..31 and clears the direction's
\* bit among bits 0..3.
InvertLow(d) == CORRIDORS_MASK - d

\* Point.__add__.
PointAdd(p, q) == <<p[1] + q[1], p[2] + q[2]>>

\* -------------------------------------------------------------------- Maze

\* The index set of a numpy array of shape (width, height).
Points(shp) == (0 .. shp[1] - 1) \X (0 .. shp[2] - 1)

\* A constructor that also refuses a dimension of 0.
MazeRaisesNonPositive(width, height) == width <= 0 \/ height <= 0

\* Maze.__init__: np.zeros((width, height)) raises for a negative dimension
\* and for no other; a dimension of 0 gives an array without elements.
MazeRaises(width, height) == width < 0 \/ height < 0

\* Maze.__init__: the array of zeros.
MazeData(width, height) == [p \in Points(<<width, height>>) |-> ZeroWord]

\* Maze.in_bounds.
in_bounds(shp, p) == p[1] >= 0 /\ p[1] < shp[1] /\ p[2] >= 0 /\ p[2] < shp[2]

\* Maze._get_and_maybe_mutate_cell with a mutate_cell that returns
\* mutated_value: the cell is written only `if mutated_value:`, that is when
\* the new word is not 0 (and not None); otherwise the array is left as it is.
get_and_maybe_mutate_cell(d, p, mutated_value) ==
    IF Truthy(mutated_value) THEN [d EXCEPT ![p] = mutated_value] ELSE d

\* -------------------------------------------------------------------- Cell

\* Cell.value: _data() >> CORRIDORS_WIDTH.
value(d, p) == d[p].value

\* Cell.has_corridor: _data() & direction, as a truth value.
has_corridor(d, p, dir) == BitAnd(d[p].corridors, dir) # 0

\* A mask one bit short: the WEST flag is not looked at.
has_neighbors_short_mask(d, p) == BitAnd(d[p].corridors, CORRIDORS_MASK \div 2) # 0

\* Cell.has_neighbors: _data() & CORRIDORS_MASK != 0.
has_neighbors(d, p) == BitAnd(d[p].corridors, CORRIDORS_MASK) # 0

\* A set_value that stores the shifted value alone, without the corridor
\* bits of the previous word.
SetValueWordNoCorridors(previous_value, v) == [value |-> v, corridors |-> 0]

\* The lambda of Cell.set_value:
\* (previous_value & CORRIDORS_MASK) | (value.to_int() << CORRIDORS_WIDTH).
SetValueWord(previous_value, v) ==
    [value |-> v, corridors |-> BitAnd(previous_value.corridors, CORRIDORS_MASK)]

\* Cell.set_value with a UInt28 holding v.
set_value(d, p, v) == get_and_maybe_mutate_cell(d, p, SetValueWord(d[p], v))

\* The lambda of Cell.open_corridor: value | direction.
OpenWord(word, dir) == [word EXCEPT !.corridors = BitOr(word.corridors, dir)]

\* The lambda of Cell.close_corridor: value & ~direction.
CloseWord(word, dir) == [word EXCEPT !.corridors = BitAnd(word.corridors, InvertLow(dir))]

\* An open_corridor that sets the same flag, not the opposite one, on the
\* neighbour.
open_corridor_same_flag(shp, d, p, dir) ==
    LET n == PointAdd(p, delta(dir)) IN
    IF in_bounds(shp, n)
    THEN LET d1 == get_and_maybe_mutate_cell(d, p, OpenWord(d[p], dir)) IN
         get_and_maybe_mutate_cell(d1, n, OpenWord(d1[n], dir))
    ELSE d

\* An open_corridor that leaves the neighbour's word alone.
open_corridor_one_sided(shp, d, p, dir) ==
    LET n == PointAdd(p, delta(dir)) IN
    IF in_bounds(shp, n)
    THEN get_and_maybe_mutate_cell(d, p, OpenWord(d[p], dir))
    ELSE d

\* An open_corridor that sets this cell's flag before asking whether the
\* neighbour exists.
open_corridor_unchecked(shp, d, p, dir) ==
    LET n == PointAdd(p, delta(dir))
        d1 == get_and_maybe_mutate_cell(d, p, OpenWord(d[p], dir))
    IN IF in_bounds(shp, n)
       THEN get_and_maybe_mutate_cell(d1, n, OpenWord(d1[n], opposite(dir)))
       ELSE d1

\* Cell._mutate_corridor with the lambda of open_corridor: this cell first,
\* then the neighbour, and nothing when the neighbour is out of bounds.
open_corridor(shp, d, p, dir) ==
    LET n == PointAdd(p, delta(dir)) IN
    IF in_bounds(shp, n)
    THEN LET d1 == get_and_maybe_mutate_cell(d, p, OpenWord(d[p], dir)) IN
         get_and_maybe_mutate_cell(d1, n, OpenWord(d1[n], opposite(dir)))
    ELSE d

\* Cell._mutate_corridor with the lambda of close_corridor.
close_corridor(shp, d, p, dir) ==
    LET n == PointAdd(p, delta(dir)) IN
    IF in_bounds(shp, n)
    THEN LET d1 == get_and_maybe_mutate_cell(d, p, CloseWord(d[p], dir)) IN
         get_and_maybe_mutate_cell(d1, n, CloseWord(d1[n], opposite(dir)))
    ELSE d

RECURSIVE ReachableIgnoringFlags(_, _, _, _)
\* Neighbours yielded whether or not the corridor flag is set.
ReachableIgnoringFlags(shp, d, p, i) ==
    IF i > Len(DirectionAll) THEN <<>>
    ELSE LET n == PointAdd(p, delta(DirectionAll[i]))
         IN (IF in_bounds(shp, n) THEN <<n>> ELSE <<>>)
                \o ReachableIgnoringFlags(shp, d, p, i + 1)

RECURSIVE ReachableButLast(_, _, _, _)
\* Neighbours looked for in every direction but the last of Direction.all().
ReachableButLast(shp, d, p, i) ==
    IF i > Len(DirectionAll) - 1 THEN <<>>
    ELSE LET dir == DirectionAll[i]
             n == PointAdd(p, delta(dir))
         IN (IF has_corridor(d, p, dir) /\ in_bounds(shp, n) THEN <<n>> ELSE <<>>)
                \o ReachableButLast(shp, d, p, i + 1)

\* Cell.reachable_neighbors: the in-bounds neighbours behind a set flag, in
\* the order of Direction.all().
RECURSIVE ReachableFrom(_, _, _, _)
ReachableFrom(shp, d, p, i) ==
    IF i > Len(DirectionAll) THEN <<>>
    ELSE LET dir == DirectionAll[i]
             n == PointAdd(p, delta(dir))
         IN (IF has_corridor(d, p, dir) /\ in_bounds(shp, n) THEN <<n>> ELSE <<>>)
                \o ReachableFrom(shp, d, p, i + 1)

reachable_neighbors(shp, d, p) == ReachableFrom(shp, d, p, 1)

\* ------------------------------------------------------------------- state

VARIABLES
    shape,      \* Maze.shape(): <<width, height>> of maze.data
    data,       \* maze.data: the stored word of every cell
    pc,         \* "start" (no maze yet), "idle", or the loop running: "build", "measure"
    stack,      \* the explicit stack of the running traversal (top is last)
    progress,   \* the count of the running traversal's progress bar
    raised,     \* whether the last call raised
    last,       \* the last call: [op |-> name, args |-> its arguments but the cell]
    pushed,     \* per cell, the frames the running traversal pushed for it anew
    popped      \* per cell, the frames the running traversal popped for good

vars == <<shape, data, pc, stack, progress, raised, last, pushed, popped>>

\* ------------------------------------------------------------------ inputs

\* Dimensions offered to the Maze constructor: negative, zero and positive.
Dimensions(n) == {wh \in (-1 .. n) \X (-1 .. n) : wh[1] * wh[2] <= n}

\* The arguments offered to set_value, as <<constructor, n>>: UInt28(n) for
\* both ends of the 28-bit range and their outer neighbours, UInt28.clamped(n)
\* for integers outside the range (0x1FFFFFFF is bit 28 set over 28 set
\* bits), and a bare integer.
Arguments ==
    ({"UInt28"} \X {-1, 0, MASK, MASK + 1})
        \cup ({"clamped"} \X {-1, MASK + 1, 536870911})
        \cup {<<"int", MASK>>}

\* The arguments offered to set_value between the traversals: the least and
\* the greatest UInt28.
Payloads == {<<"UInt28", 0>>, <<"UInt28", MASK>>}

\* Starts outside a grid: one step off each side of each axis.
Outside(shp) == {<<-1, 0>>, <<0, -1>>, <<shp[1], 0>>, <<0, shp[2]>>}

\* No frame counted for any cell of a grid of shape shp.
NoFrames(shp) == [p \in Points(shp) |-> 0]

\* count with the frames of the sequence frames counted in, each for its cell.
CountFrames(count, frames) ==
    [p \in DOMAIN count |->
        count[p] + Cardinality({i \in 1 .. Len(frames) : frames[i].cell = p})]

\* --------------------------------------------------------- the cell calls

\* maze = Maze(width, height).
MazeCall(width, height) ==
    /\ pc = "start"
    /\ last' = [op |-> "Maze", args |-> <<width, height>>]
    /\ IF MazeRaises(width, height)
       THEN /\ raised' = TRUE
            /\ UNCHANGED <<shape, data, pc, pushed, popped>>
       ELSE /\ raised' = FALSE
            /\ shape' = <<width, height>>
            /\ data' = MazeData(width, height)
            /\ pc' = "idle"
            /\ pushed' = NoFrames(<<width, height>>)
            /\ popped' = NoFrames(<<width, height>>)
    /\ UNCHANGED <<stack, progress>>

\* maze[p].open_corridor(dir).
OpenCorridorCall(p, dir) ==
    /\ pc = "idle"
    /\ data' = open_corridor(shape, data, p, dir)
    /\ raised' = FALSE
    /\ last' = [op |-> "open_corridor", args |-> <<dir>>]
    /\ UNCHANGED <<shape, pc, stack, progress, pushed, popped>>

\* maze[p].close_corridor(dir).
CloseCorridorCall(p, dir) ==
    /\ pc = "idle"
    /\ data' = close_corridor(shape, data, p, dir)
    /\ raised' = FALSE
    /\ last' = [op |-> "close_corridor", args |-> <<dir>>]
    /\ UNCHANGED <<shape, pc, stack, progress, pushed, popped>>

\* Whether building the argument, or set_value's isinstance check, raises.
SetValueRaises(ctor, n) ==
    CASE ctor = "UInt28"  -> UInt28Raises(n)
      [] ctor = "clamped" -> UInt28Raises(clamped(n))
      [] ctor = "int"     -> TRUE

\* The integer the UInt28 argument holds.
ArgValue(ctor, n) == IF ctor = "clamped" THEN clamped(n) ELSE n

\* maze[p].set_value(UInt28(n)), maze[p].set_value(UInt28.clamped(n)) or
\* maze[p].set_value(n).
SetValueCall(p, ctor, n) ==
    /\ pc = "idle"
    /\ last' = [op |-> "set_value", args |-> <<ctor, n>>]
    /\ IF SetValueRaises(ctor, n)
       THEN /\ raised' = TRUE
            /\ data' = data
       ELSE /\ raised' = FALSE
            /\ data' = set_value(data, p, ArgValue(ctor, n))
    /\ UNCHANGED <<shape, pc, stack, progress, pushed, popped>>

\* ------------------------------------------------- RecursiveBacktracker

Factorial(n) == CASE n = 0 -> 1 [] n = 1 -> 1 [] n = 2 -> 2 [] n = 3 -> 6 [] n = 4 -> 24

\* seq without its i-th element.
Without(seq, i) == SubSeq(seq, 1, i - 1) \o SubSeq(seq, i + 1, Len(seq))

RECURSIVE NthPermutation(_, _)
\* The k-th permutation of items in lexicographic order, k from 0.
NthPermutation(items, k) ==
    IF items = <<>> THEN <<>>
    ELSE LET f == Factorial(Len(items) - 1)
             i == (k \div f) + 1
         IN <<items[i]>> \o NthPermutation(Without(items, i), k % f)

\* RecursiveBacktracker.shuffled_directions: random.sample of all four
\* directions, any of the 24 orders.  The model draws from NumShuffles of
\* them, spread over the 24 so that the first four already put every pair of
\* directions in both orders (NESW, ENWS, SENW, WESN).
shuffled_directions ==
    {NthPermutation(DirectionAll, (7 * i) % 24) : i \in 0 .. NumShuffles - 1}

\* A scan that gives up after the first direction of the list.
FirstUnvisitedHeadOnly(shp, d, cell, directions) ==
    LET n == PointAdd(cell, delta(directions[1]))
    IN IF in_bounds(shp, n) /\ ~has_neighbors(d, n) THEN 1 ELSE 0

\* A scan that takes a neighbour as unvisited when it has no corridor back
\* to this cell, whatever other corridors it has.
FirstUnconnected(shp, d, cell, directions) ==
    LET open == {i \in 1 .. Len(directions) :
                    LET n == PointAdd(cell, delta(directions[i])) IN
                    in_bounds(shp, n) /\ ~has_corridor(d, n, opposite(directions[i]))}
    IN IF open = {} THEN 0 ELSE CHOOSE i \in open : \A j \in open : i <= j

\* The position in directions of the first direction whose neighbour is in
\* bounds and has no corridor yet, or 0 when there is none (the for-else).
FirstUnvisited(shp, d, cell, directions) ==
    LET open == {i \in 1 .. Len(directions) :
                    LET n == PointAdd(cell, delta(directions[i])) IN
                    in_bounds(shp, n) /\ ~has_neighbors(d, n)}
    IN IF open = {} THEN 0 ELSE CHOOSE i \in open : \A j \in open : i <= j

\* A bounds check without the lower bounds (a negative index wraps around
\* in numpy instead of failing).
BuildCallNoLowerBound(start_coordinates) ==
    /\ pc = "idle"
    /\ last' = [op |-> "build", args |-> <<start_coordinates>>]
    /\ IF ~(start_coordinates[1] < shape[1] /\ start_coordinates[2] < shape[2])
       THEN /\ raised' = TRUE
            /\ UNCHANGED <<pc, stack, progress, pushed, popped>>
       ELSE /\ raised' = FALSE
            /\ pc' = "build"
            /\ progress' = 0
            /\ pushed' = CountFrames(NoFrames(shape), <<[cell |-> start_coordinates]>>)
            /\ popped' = NoFrames(shape)
            /\ \E directions \in shuffled_directions :
                  stack' = <<[cell |-> start_coordinates, directions |-> directions]>>
    /\ UNCHANGED <<shape, data>>

\* RecursiveBacktracker().build(maze, start_coordinates) up to its loop.
BuildCall(start_coordinates) ==
    /\ pc = "idle"
    /\ last' = [op |-> "build", args |-> <<start_coordinates>>]
    /\ IF ~in_bounds(shape, start_coordinates)
       THEN /\ raised' = TRUE
            /\ UNCHANGED <<pc, stack, progress, pushed, popped>>
       ELSE /\ raised' = FALSE
            /\ pc' = "build"
            /\ progress' = 0
            /\ pushed' = CountFrames(NoFrames(shape), <<[cell |-> start_coordinates]>>)
            /\ popped' = NoFrames(shape)
            /\ \E directions \in shuffled_directions :
                  stack' = <<[cell |-> start_coordinates, directions |-> directions]>>
    /\ UNCHANGED <<shape, data>>

\* A loop that puts the frame back when its scan finds nothing, instead of
\* dropping it.
BuildStepKeepsFrame ==
    /\ pc = "build"
    /\ stack # <<>>
    /\ \E frame \in {stack[Len(stack)]}, rest \in {SubSeq(stack, 1, Len(stack) - 1)} :
       \E i \in {FirstUnvisited(shape, data, frame.cell, frame.directions)} :
          IF i # 0
          THEN \E direction \in {frame.directions[i]} :
               \E neighbor \in {PointAdd(frame.cell, delta(direction))} :
                  /\ data' = open_corridor(shape, data, frame.cell, direction)
                  /\ \E directions \in shuffled_directions :
                        stack' = rest \o <<frame, [cell |-> neighbor, directions |-> directions]>>
                  /\ pushed' = CountFrames(pushed, <<[cell |-> neighbor]>>)
                  /\ UNCHANGED <<progress, popped>>
          ELSE /\ stack' = rest \o <<frame>>
               /\ UNCHANGED <<data, progress, pushed, popped>>
    /\ pc' = IF stack' = <<>> THEN "idle" ELSE "build"
    /\ UNCHANGED <<shape, raised, last>>

\* One iteration of build's `while stack:` loop; build returns when the
\* stack is empty afterwards.  (The locals frame, rest, i, direction and
\* neighbor are bound as the one element of a set, which has them computed
\* once.)
BuildStep ==
    /\ pc = "build"
    /\ stack # <<>>
    /\ \E frame \in {stack[Len(stack)]}, rest \in {SubSeq(stack, 1, Len(stack) - 1)} :
       \E i \in {FirstUnvisited(shape, data, frame.cell, frame.directions)} :
          IF i # 0
          THEN \E direction \in {frame.directions[i]} :
               \E neighbor \in {PointAdd(frame.cell, delta(direction))} :
                  /\ data' = open_corridor(shape, data, frame.cell, direction)
                  /\ \E directions \in shuffled_directions :
                        stack' = rest \o <<frame, [cell |-> neighbor, directions |-> directions]>>
                  /\ pushed' = CountFrames(pushed, <<[cell |-> neighbor]>>)
                  /\ UNCHANGED <<progress, popped>>
          ELSE /\ stack' = rest
               /\ progress' = progress + 1
               /\ popped' = CountFrames(popped, <<frame>>)
               /\ UNCHANGED <<data, pushed>>
    /\ pc' = IF stack' = <<>> THEN "idle" ELSE "build"
    /\ UNCHANGED <<shape, raised, last>>

\* ------------------------------------------------------ measure_distances

\* A labeler that gives the start the distance 0.
MeasureCallFromZero(start_coordinates) ==
    /\ pc = "idle"
    /\ last' = [op |-> "measure_distances", args |-> <<start_coordinates>>]
    /\ IF ~in_bounds(shape, start_coordinates)
       THEN /\ raised' = TRUE
            /\ UNCHANGED <<pc, stack, progress, pushed, popped>>
       ELSE /\ raised' = FALSE
            /\ pc' = "measure"
            /\ progress' = 0
            /\ pushed' = CountFrames(NoFrames(shape), <<[cell |-> start_coordinates]>>)
            /\ popped' = NoFrames(shape)
            /\ stack' = <<[cell |-> start_coordinates, distance |-> 0]>>
    /\ UNCHANGED <<shape, data>>

\* measure_distances(maze, start_coordinates) up to its loop.
MeasureCall(start_coordinates) ==
    /\ pc = "idle"
    /\ last' = [op |-> "measure_distances", args |-> <<start_coordinates>>]
    /\ IF ~in_bounds(shape, start_coordinates)
       THEN /\ raised' = TRUE
            /\ UNCHANGED <<pc, stack, progress, pushed, popped>>
       ELSE /\ raised' = FALSE
            /\ pc' = "measure"
            /\ progress' = 0
            /\ pushed' = CountFrames(NoFrames(shape), <<[cell |-> start_coordinates]>>)
            /\ popped' = NoFrames(shape)
            /\ stack' = <<[cell |-> start_coordinates, distance |-> 1]>>
    /\ UNCHANGED <<shape, data>>

RECURSIVE UnvisitedSameDistance(_, _, _)
\* Neighbours pushed with the distance of the popped cell, not one more.
UnvisitedSameDistance(d, neighbors, distance) ==
    IF neighbors = <<>> THEN <<>>
    ELSE (IF value(d, Head(neighbors)) = 0
          THEN <<[cell |-> Head(neighbors), distance |-> distance]>>
          ELSE <<>>)
         \o UnvisitedSameDistance(d, Tail(neighbors), distance)

RECURSIVE UnvisitedOrNot(_, _, _)
\* A frame pushed for every neighbour, whatever its value.
UnvisitedOrNot(d, neighbors, distance) ==
    IF neighbors = <<>> THEN <<>>
    ELSE <<[cell |-> Head(neighbors), distance |-> distance + 1]>>
         \o UnvisitedOrNot(d, Tail(neighbors), distance)

RECURSIVE Unvisited(_, _, _)
\* The frames pushed for the neighbours whose value is still 0, in order.
Unvisited(d, neighbors, distance) ==
    IF neighbors = <<>> THEN <<>>
    ELSE (IF value(d, Head(neighbors)) = 0
          THEN <<[cell |-> Head(neighbors), distance |-> distance + 1]>>
          ELSE <<>>)
         \o Unvisited(d, Tail(neighbors), distance)

\* The grid after one iteration of measure_distances' loop on frame.
Stamped(d, frame) == set_value(d, frame.cell, clamped(frame.distance))

\* One iteration of measure_distances' `while stack:` loop; the function
\* returns when the stack is empty afterwards.
MeasureStep ==
    /\ pc = "measure"
    /\ stack # <<>>
    /\ \E frame \in {stack[Len(stack)]}, rest \in {SubSeq(stack, 1, Len(stack) - 1)} :
       \E d1 \in {Stamped(data, frame)} :
       \E todo \in {Unvisited(d1, reachable_neighbors(shape, d1, frame.cell),
                              frame.distance)} :
          IF SetValueRaises("clamped", frame.distance)
          THEN /\ raised' = TRUE
               /\ pc' = "idle"
               /\ stack' = <<>>
               /\ UNCHANGED <<data, progress, pushed, popped>>
          ELSE /\ raised' = FALSE
               /\ data' = d1
               /\ stack' = rest \o todo
               /\ progress' = progress + 1
               /\ pushed' = CountFrames(pushed, todo)
               /\ popped' = CountFrames(popped, <<frame>>)
               /\ pc' = IF stack' = <<>> THEN "idle" ELSE "measure"
    /\ UNCHANGED <<shape, last>>

\* ---------------------------------------------------------- specifications

Init ==
    /\ shape = <<0, 0>>
    /\ data = MazeData(0, 0)
    /\ pc = "start"
    /\ stack = <<>>
    /\ progress = 0
    /\ raised = FALSE
    /\ last = [op |-> "none", args |-> <<>>]
    /\ pushed = NoFrames(<<0, 0>>)
    /\ popped = NoFrames(<<0, 0>>)

\* The cell operations in any order on a grid of any shape, and the two
\* traversals called with a start outside the grid.
Next ==
    \/ \E wh \in Dimensions(MaxCells) : MazeCall(wh[1], wh[2])
    \/ \E p \in Points(shape), dir \in Directions : OpenCorridorCall(p, dir)
    \/ \E p \in Points(shape), dir \in Directions : CloseCorridorCall(p, dir)
    \/ \E p \in Points(shape), arg \in Arguments : SetValueCall(p, arg[1], arg[2])
    \/ \E s \in Outside(shape) : BuildCall(s)
    \/ \E s \in Outside(shape) : MeasureCall(s)

Spec == Init /\ [][Next]_vars

\* A maze made and measured: a fresh grid; then either corridors opened by
\* hand, one by one (every symmetric corridor layout, all payloads 0), or
\* build from a start in the fresh grid (as chart() does); then
\* measure_distances from a start in the grid.
NextMaze ==
    \/ \E wh \in Dimensions(MaxMazeCells) : MazeCall(wh[1], wh[2])
    \/ /\ last.op \in {"Maze", "open_corridor"}
       /\ \E p \in Points(shape), dir \in Directions : OpenCorridorCall(p, dir)
    \/ /\ last.op = "Maze"
       /\ \E s \in Points(shape) : BuildCall(s)
    \/ BuildStep
    \/ /\ last.op \in {"Maze", "open_corridor", "build"}
       /\ \E s \in Points(shape) : MeasureCall(s)
    \/ MeasureStep

SpecMaze == Init /\ [][NextMaze]_vars

\* NextMaze on the grids of up to MaxFairCells cells.
NextFair ==
    \/ \E wh \in Dimensions(MaxFairCells) : MazeCall(wh[1], wh[2])
    \/ /\ last.op \in {"Maze", "open_corridor"}
       /\ \E p \in Points(shape), dir \in Directions : OpenCorridorCall(p, dir)
    \/ /\ last.op = "Maze"
       /\ \E s \in Points(shape) : BuildCall(s)
    \/ BuildStep
    \/ /\ last.op \in {"Maze", "open_corridor", "build"}
       /\ \E s \in Points(shape) : MeasureCall(s)
    \/ MeasureStep

\* A maze made and measured with both loops running on: an iteration that
\* can be taken is taken (a `while stack:` loop of a single thread does not
\* pause).
SpecMazeFair ==
    Init /\ [][NextFair]_vars /\ WF_vars(BuildStep) /\ WF_vars(MeasureStep)

\* Every call in any order: the cell operations between the traversals, and
\* the two traversals run from a start in the grid on whatever grid the
\* calls before them left.
NextAll ==
    \/ \E wh \in Dimensions(MaxAllCells) : MazeCall(wh[1], wh[2])
    \/ \E p \in Points(shape), dir \in Directions : OpenCorridorCall(p, dir)
    \/ \E p \in Points(shape), dir \in Directions : CloseCorridorCall(p, dir)
    \/ \E p \in Points(shape), arg \in Payloads : SetValueCall(p, arg[1], arg[2])
    \/ \E s \in Points(shape) : BuildCall(s)
    \/ BuildStep
    \/ \E s \in Points(shape) : MeasureCall(s)
    \/ MeasureStep

SpecAll == Init /\ [][NextAll]_vars

\* ------------------------------------------------------------------ claims

\* The neighbour of p in direction dir.
Neighbor(p, dir) == PointAdd(p, delta(dir))

\* C1: corridor symmetry is an invariant of the grid: after any sequence of
\* open_corridor, close_corridor and set_value calls, for every pair of
\* in-bounds cells A and B with B the neighbour of A in direction D, A has
\* the corridor D exactly when B has the corridor opposite(D).
C1_CorridorSymmetry ==
    \A p \in Points(shape), dir \in Directions :
        in_bounds(shape, Neighbor(p, dir)) =>
            (has_corridor(data, p, dir)
                <=> has_corridor(data, Neighbor(p, dir), opposite(dir)))

\* C2: close_corridor clears symmetrically: after A.close_corridor(D) with
\* the neighbour B in bounds, neither A's flag D nor B's flag opposite(D) is
\* set, also when clearing leaves a whole word 0; with B out of bounds the
\* call changes nothing.
C2_CloseClearsBoth ==
    [][last'.op = "close_corridor" =>
          \A p \in Points(shape) :
              LET dir == last'.args[1] IN
              CloseCorridorCall(p, dir) =>
                  IF Neighbor(p, dir) \in Points(shape)
                  THEN /\ ~has_corridor(data', p, dir)
                       /\ ~has_corridor(data', Neighbor(p, dir), opposite(dir))
                  ELSE data' = data]_vars

\* C3: set_value round-trips: after cell.set_value(UInt28(v)) on a cell in
\* any state, cell.value() is v, for every v the UInt28 accepts; writing 0
\* over a non-zero payload gives 0.
C3_SetValueRoundTrips ==
    [][last'.op = "set_value" =>
          \A p \in Points(shape) :
              LET ctor == last'.args[1]
                  n == last'.args[2]
              IN (SetValueCall(p, ctor, n) /\ ~raised')
                     => value(data', p) = ArgValue(ctor, n)]_vars

\* The unordered pairs of adjacent cells joined by a corridor.
CorridorPairs ==
    {{pd[1], Neighbor(pd[1], pd[2])} :
        pd \in {qd \in Points(shape) \X Directions :
                   /\ in_bounds(shape, Neighbor(qd[1], qd[2]))
                   /\ has_corridor(data, qd[1], qd[2])}}

\* The cells one corridor away from a cell of S.
Step(S) ==
    UNION {{Neighbor(p, dir) :
               dir \in {e \in Directions :
                           /\ Neighbor(p, e) \in Points(shape)
                           /\ has_corridor(data, p, e)}} : p \in S}

RECURSIVE Closure(_)
\* The cells connected to a cell of S through open corridors.  (T ranges
\* over a one-element set so that S \cup Step(S) is computed once.)
Closure(S) ==
    CHOOSE R \in {IF T = S THEN S ELSE Closure(T) : T \in {S \cup Step(S)}} : TRUE

RECURSIVE Bfs(_, _, _)
\* Breadth-first search from frontier, whose cells are k corridors from the
\* start, past the cells already seen: the pairs <<cell, distance>> of every
\* cell it finds.
Bfs(seen, frontier, k) ==
    IF frontier = {} THEN {}
    ELSE {<<p, k>> : p \in frontier}
            \cup UNION {Bfs(T, Step(frontier) \ T, k + 1) : T \in {seen \cup frontier}}

\* The corridor graph is a tree over the whole grid: one corridor pair fewer
\* than cells, and every cell connected to start.
IsTree(start) ==
    /\ Cardinality(CorridorPairs) = Cardinality(Points(shape)) - 1
    /\ Closure({start}) = Points(shape)

\* build has returned (and nothing was called since).
Built == pc = "idle" /\ last.op = "build" /\ ~raised

\* measure_distances is running or has returned (and nothing was called since).
Measuring == last.op = "measure_distances" /\ ~raised

Measured == Measuring /\ pc = "idle"

\* C4: spanning-tree completeness: when build returns on a fresh grid, every
\* cell has a corridor flag set, except that the single cell of a 1 x 1 grid
\* has none.
C4_EveryCellCarved ==
    Built =>
        IF shape[1] * shape[2] = 1
        THEN \A p \in Points(shape) : ~has_neighbors(data, p)
        ELSE \A p \in Points(shape) : has_neighbors(data, p)

C4_Witness ==
    /\ Built
    /\ shape = <<3, 2>>
    /\ \A p \in Points(shape) : has_neighbors(data, p)

\* C5: acyclicity: when build returns on a fresh W x H grid, there are
\* exactly W * H - 1 corridor pairs and every cell is connected to the
\* start: the corridors form one spanning tree.
C5_SpanningTree ==
    Built =>
        /\ Cardinality(CorridorPairs) = shape[1] * shape[2] - 1
        /\ Closure({last.args[1]}) = Points(shape)

C5_Witness ==
    /\ Built
    /\ shape = <<2, 3>>
    /\ Cardinality(CorridorPairs) = 5
    /\ last.args[1] = <<1, 1>>

\* C6: distance exactness: on a grid whose corridors form a tree and whose
\* payloads were all 0, after measure_distances(grid, start) every cell
\* holds 1 + the number of corridors between start and the cell, as found
\* by a breadth-first search.
C6_DistanceExact ==
    (Measured /\ IsTree(last.args[1])) =>
        {<<p, value(data, p)>> : p \in Points(shape)}
            = {<<pk[1], 1 + pk[2]>> : pk \in Bfs({}, {last.args[1]}, 0)}

C6_Witness ==
    /\ Measured
    /\ IsTree(last.args[1])
    /\ shape = <<3, 2>>
    /\ \E p \in Points(shape) : value(data, p) = 6

\* C7: sentinel preservation: on a grid with all payloads 0, a cell not
\* connected to start has payload 0 in every state of the labeling loop and
\* after measure_distances returns.
C7_UnreachedStayZero ==
    Measuring =>
        \A p \in Points(shape) \ Closure({last.args[1]}) : value(data, p) = 0

C7_Witness ==
    /\ Measured
    /\ \E p \in Points(shape) :
          /\ p \notin Closure({last.args[1]})
          /\ has_neighbors(data, p)
    /\ \E p \in Points(shape) : value(data, p) = 2

\* C8 as claimed: Maze(width, height) raises whenever width <= 0 or
\* height <= 0, and otherwise gives a grid of that shape with every cell 0.
C8_RejectsNonPositive ==
    last.op = "Maze" =>
        /\ raised <=> (last.args[1] <= 0 \/ last.args[2] <= 0)
        /\ ~raised =>
              /\ shape = last.args
              /\ DOMAIN data = (0 .. last.args[1] - 1) \X (0 .. last.args[2] - 1)
              /\ \A p \in DOMAIN data : data[p] = ZeroWord

\* C8 amended: Maze(width, height) raises exactly when width < 0 or
\* height < 0; otherwise it gives a grid of shape (width, height) with every
\* cell's payload 0 and no corridor flag set, a grid without cells when a
\* dimension is 0.
C8_RejectsNegative ==
    last.op = "Maze" =>
        /\ raised <=> (last.args[1] < 0 \/ last.args[2] < 0)
        /\ raised => pc = "start"
        /\ ~raised =>
              /\ shape = last.args
              /\ DOMAIN data = (0 .. last.args[1] - 1) \X (0 .. last.args[2] - 1)
              /\ \A p \in DOMAIN data : data[p] = ZeroWord

C8_Witness ==
    /\ last = [op |-> "Maze", args |-> <<0, 1>>]
    /\ ~raised
    /\ pc = "idle"
    /\ data = <<>>

\* C9: an out-of-bounds start fails before any mutation: build and
\* measure_distances called with a start outside [0, width) x [0, height)
\* raise, their loop never starts, and every stored word is as before.
C9_OutOfBoundsStartRaises ==
    [][last'.op \in {"build", "measure_distances"} =>
          LET s == last'.args[1] IN
          (s \notin Points(shape) /\ (BuildCall(s) \/ MeasureCall(s)))
              => /\ raised'
                 /\ pc' = "idle"
                 /\ stack' = <<>>
                 /\ data' = data]_vars

C9_Witness ==
    /\ last = [op |-> "build", args |-> <<<<-1, 0>>>>]
    /\ raised
    /\ pc = "idle"
    /\ \E p \in Points(shape) : data[p].value # 0 /\ data[p].corridors # 0

\* C10: bounded-value enforcement: UInt28(n) raises exactly when n is not in
\* 0 .. 2^28 - 1; UInt28.clamped(n) never raises and holds n mod 2^28
\* (0x0FFFFFFF for 0x1FFFFFFF); set_value given a bare integer raises; and a
\* set_value that raises leaves the grid as it was.
C10_BoundedValue ==
    [][last'.op = "set_value" =>
          \A p \in Points(shape) :
              LET ctor == last'.args[1]
                  n == last'.args[2]
              IN SetValueCall(p, ctor, n) =>
                     /\ ctor = "UInt28" => (raised' <=> (n < 0 \/ n > 268435455))
                     /\ ctor = "clamped" => (~raised' /\ ArgValue(ctor, n) = n % 268435456)
                     /\ ctor = "int" => raised'
                     /\ raised' => data' = data]_vars

C10_Witness ==
    /\ last = [op |-> "set_value", args |-> <<"clamped", 536870911>>]
    /\ ~raised
    /\ \E p \in Points(shape) : data[p].value = 268435455

\* The directions whose corridor flag is set in cell p.
Flags(d, p) == {e \in Directions : has_corridor(d, p, e)}

\* C11: open_corridor is a symmetric, idempotent set: after
\* A.open_corridor(D) in any state of the grid, if the neighbour B of A in
\* direction D is in bounds then A's flag D and B's flag opposite(D) are set
\* and no other flag and no payload of any cell has changed; if B is out of
\* bounds the grid is unchanged; and a second A.open_corridor(D) changes
\* nothing.
C11_OpenSetsBoth ==
    [][last'.op = "open_corridor" =>
          \A p \in Points(shape) :
              LET dir == last'.args[1]
                  n == Neighbor(p, dir)
              IN OpenCorridorCall(p, dir) =>
                     /\ IF n \in Points(shape)
                        THEN /\ Flags(data', p) = Flags(data, p) \cup {dir}
                             /\ Flags(data', n) = Flags(data, n) \cup {opposite(dir)}
                             /\ value(data', p) = value(data, p)
                             /\ value(data', n) = value(data, n)
                             /\ \A q \in Points(shape) \ {p, n} : data'[q] = data[q]
                        ELSE data' = data
                     /\ open_corridor(shape, data', p, dir) = data']_vars

C11_Witness ==
    /\ last.op = "open_corridor"
    /\ \E p \in Points(shape) :
          LET n == Neighbor(p, last.args[1]) IN
          /\ n \in Points(shape)
          /\ has_corridor(data, p, last.args[1])
          /\ has_corridor(data, n, opposite(last.args[1]))
          /\ value(data, p) = MASK
          /\ data[n] = [value |-> 0, corridors |-> opposite(last.args[1])]

\* C12: payload writes preserve corridors: a set_value on a cell C, whatever
\* its argument, leaves the four corridor flags of C as they were and leaves
\* every other cell's word as it was; and every step of measure_distances
\* (the call and each iteration of its loop) leaves every corridor flag of
\* the grid as it was.
C12_PayloadWritesKeepCorridors ==
    [][/\ last'.op = "set_value" =>
             \A p \in Points(shape) :
                 SetValueCall(p, last'.args[1], last'.args[2]) =>
                     /\ \A e \in Directions :
                           has_corridor(data', p, e) <=> has_corridor(data, p, e)
                     /\ \A q \in Points(shape) \ {p} : data'[q] = data[q]
       /\ (pc = "measure" \/ pc' = "measure") =>
             \A q \in Points(shape), e \in Directions :
                 has_corridor(data', q, e) <=> has_corridor(data, q, e)]_vars

C12_Witness ==
    /\ last = [op |-> "set_value", args |-> <<"UInt28", MASK>>]
    /\ ~raised
    /\ \E p \in Points(shape) : value(data, p) = MASK /\ has_neighbors(data, p)
    /\ \E p \in Points(shape) :
          /\ value(data, p) = 2 /\ has_neighbors(data, p)
          /\ popped[p] = 1

\* C13: no corridor ever points off the grid: in every state reached from a
\* fresh grid by open_corridor, close_corridor, set_value, build and
\* measure_distances calls in any order, a cell's corridor flag is set only
\* for a direction whose neighbour is in bounds, so reachable_neighbors
\* yields one neighbour per set flag.
C13_NoCorridorOffGrid ==
    \A p \in Points(shape) :
        /\ \A dir \in Directions :
              has_corridor(data, p, dir) => in_bounds(shape, Neighbor(p, dir))
        /\ Len(reachable_neighbors(shape, data, p))
              = Cardinality({dir \in Directions : has_corridor(data, p, dir)})

C13_Witness ==
    /\ last = [op |-> "open_corridor", args |-> <<EAST>>]
    /\ shape = <<1, 2>>
    /\ popped = [p \in Points(shape) |-> 1]
    /\ Len(reachable_neighbors(shape, data, <<0, 0>>)) = 1
    /\ value(data, <<0, 1>>) = MASK

\* C14: corridor symmetry holds at every step of the builder: from the call
\* of build on a fresh grid, at the start of every iteration of its loop and
\* when it returns, every pair of adjacent cells A and B, B in direction D
\* of A, has A's flag D set exactly when B's flag opposite(D) is set,
\* whatever the shuffles gave.
C14_SymmetryDuringBuild ==
    (last.op = "build" /\ ~raised) =>
        \A p \in Points(shape), dir \in Directions :
            Neighbor(p, dir) \in Points(shape) =>
                (has_corridor(data, p, dir)
                    = has_corridor(data, Neighbor(p, dir), opposite(dir)))

C14_Witness ==
    /\ pc = "build"
    /\ shape = <<2, 3>>
    /\ Len(stack) = 4
    /\ progress = 2
    /\ Cardinality(CorridorPairs) = 5

\* The cells with a frame on the stack.
OnStack == {stack[i].cell : i \in 1 .. Len(stack)}

\* build is running or has returned (and nothing was called since).
Building == last.op = "build" /\ ~raised

\* C15: each cell is visited exactly once by the builder: during build on a
\* fresh grid from a start in the grid, no cell is pushed as a new frame
\* more than once or dropped as fully expanded (the for-else) more than
\* once, a dropped cell is not on the stack, and the progress count is the
\* number of dropped cells; once a cell is dropped no later step changes
\* its word (no corridor is opened to or from it) or puts it on the stack;
\* and when build returns every cell was pushed once and dropped once, the
\* progress count being W * H.
C15_VisitedExactlyOnce ==
    /\ [](Building =>
            /\ \A p \in Points(shape) :
                  /\ pushed[p] <= 1
                  /\ popped[p] <= pushed[p]
                  /\ popped[p] = 1 => p \notin OnStack
                  /\ (pushed[p] = 1 /\ popped[p] = 0) => p \in OnStack
            /\ progress = Cardinality({p \in Points(shape) : popped[p] >= 1})
            /\ pc = "idle" =>
                  /\ \A p \in Points(shape) : pushed[p] = 1 /\ popped[p] = 1
                  /\ progress = shape[1] * shape[2])
    /\ [][BuildStep =>
             \A p \in Points(shape) :
                 popped[p] >= 1 => (data'[p] = data[p] /\ p \notin OnStack')]_vars

C15_Witness ==
    /\ Built
    /\ shape = <<3, 2>>
    /\ progress = 6
    /\ \A p \in Points(shape) : pushed[p] = 1 /\ popped[p] = 1

\* C16: the builder terminates: build called on a fresh grid from a start in
\* the grid, whatever the shuffles give, reaches an empty stack, and in
\* that state no cell has an in-bounds neighbour without a corridor flag.
C16_BuildTerminates ==
    (pc = "build") ~>
        (/\ Built
         /\ stack = <<>>
         /\ \A p \in Points(shape), dir \in Directions :
               in_bounds(shape, Neighbor(p, dir)) => has_neighbors(data, Neighbor(p, dir)))

C16_Witness ==
    /\ Built
    /\ stack = <<>>
    /\ shape = <<2, 2>>
    /\ last.args[1] = <<0, 1>>
    /\ \A p \in Points(shape) : has_neighbors(data, p)

\* C17: a cell expands at most once in the labeler: in measure_distances on
\* a grid with all payloads 0 and a symmetric corridor graph (cycles
\* included, where a cell can be on the stack several times), a pop of a
\* cell that was popped before finds no neighbour with payload 0 and pushes
\* nothing, and still overwrites the cell's payload with the distance of
\* that pop.
C17_ExpandsAtMostOnce ==
    [][(MeasureStep /\ Measuring) =>
          LET frame == stack[Len(stack)]
              rest == SubSeq(stack, 1, Len(stack) - 1)
              neighbors == reachable_neighbors(shape, data, frame.cell)
          IN popped[frame.cell] >= 1 =>
                 /\ \A i \in 1 .. Len(neighbors) : value(data, neighbors[i]) # 0
                 /\ stack' = rest
                 /\ pushed' = pushed
                 /\ value(data', frame.cell) = frame.distance]_vars

C17_Witness ==
    /\ Measured
    /\ shape = <<2, 2>>
    /\ Cardinality(CorridorPairs) = 4
    /\ \E p \in Points(shape) :
          /\ popped[p] = 2
          /\ value(data, p) = 2
    /\ \E p \in Points(shape) : value(data, p) = 3

\* C18: the labeler never raises on malformed topology: measure_distances
\* called on a grid with all payloads 0 and a symmetric corridor graph
\* (with cycles or several connected components) from a start in the grid
\* never raises, and its loop reaches an empty stack, in which state every
\* cell connected to start holds a non-zero payload.
C18_LabelerTotal ==
    /\ [](last.op = "measure_distances" => ~raised)
    /\ (pc = "measure") ~>
           (/\ Measured
            /\ stack = <<>>
            /\ \A p \in Closure({last.args[1]}) : value(data, p) # 0)

C18_Witness ==
    /\ Measured
    /\ stack = <<>>
    /\ \E p \in Points(shape) \ Closure({last.args[1]}) : has_neighbors(data, p)
    /\ Cardinality(Closure({last.args[1]})) = 2
    /\ \A p \in Closure({last.args[1]}) : value(data, p) # 0

\* C19: label distances are bounded by the cell count: in measure_distances
\* on a W x H grid with all payloads 0 and a symmetric corridor graph,
\* every frame on the stack (so every pair ever pushed) has a distance from
\* 1 to W * H, which UInt28.clamped leaves as it is, and every cell popped
\* so far holds a non-zero payload.
C19_DistanceWithinCellCount ==
    Measuring =>
        /\ \A i \in 1 .. Len(stack) :
              /\ stack[i].distance >= 1
              /\ stack[i].distance <= shape[1] * shape[2]
              /\ clamped(stack[i].distance) = stack[i].distance
        /\ \A p \in Points(shape) :
              popped[p] >= 1 => (value(data, p) >= 1 /\ value(data, p) <= shape[1] * shape[2])

C19_Witness ==
    /\ Measuring
    /\ pc = "measure"
    /\ shape = <<3, 2>>
    /\ stack[Len(stack)].distance = 6
    /\ Cardinality(CorridorPairs) = 6

====
